---- MODULE Spec2Model ----
(***************************************************************************)
(* Model of github.com/ceearrashee/errors: the Error type, its             *)
(* constructors and wrappers, the chain traversals and the ten sentinels.  *)
(*                                                                         *)
(* Error values live in a heap (a sequence of nodes); a pointer is an      *)
(* index into it and Nil is the nil error.  A *Stack and a []string are    *)
(* records with a nil flag, so that a nil pointer or slice differs from an *)
(* empty one.  A call that returns a string returns Ok(s), or Panic when   *)
(* the Go code dereferences a nil interface.                               *)
(***************************************************************************)
EXTENDS Integers, Sequences, FiniteSets, TLC

VARIABLES allocated, made, cur, call

vars == <<allocated, made, cur, call>>

\* The nil error / nil pointer.
Nil == 0

(***************************************************************************)
(* Bounds of the model.                                                    *)
(***************************************************************************)
\* Nodes a value in hand may hold besides the package's own.
MaxAlloc == 3

(***************************************************************************)
(* Strings and fmt.                                                        *)
(***************************************************************************)
\* The result of a call that returns a string, or panics instead.
Ok(s) == [panic |-> FALSE, val |-> s]
Panic == [panic |-> TRUE, val |-> ""]

\* An operand of a fmt call: its dynamic type, its text under %v, and the
\* error it is (Nil when it is no error).
Arg(type, text, err) == [type |-> type, text |-> text, err |-> err]
IntArg(n) == Arg("int", ToString(n), Nil)
StringArg(s) == Arg("string", s, Nil)
NilArg == Arg("<nil>", "<nil>", Nil)

RECURSIVE Extra(_)
Extra(args) ==
    IF args = <<>> THEN ""
    ELSE Head(args).type \o "=" \o Head(args).text
         \o (IF Len(args) > 1 THEN ", " ELSE "") \o Extra(Tail(args))

\* One verb applied to one operand.
FormatVerb(verb, arg) ==
    IF (verb = "d" /\ arg.type # "int") \/ (verb = "w" /\ arg.err = Nil)
    THEN IF arg.type = "<nil>"
         THEN "%!" \o verb \o "(<nil>)"
         ELSE "%!" \o verb \o "(" \o arg.type \o "=" \o arg.text \o ")"
    ELSE arg.text

\* fmt.Sprintf over the verbs %s %v %d %w and %%.
RECURSIVE Sprintf(_, _)
Sprintf(format, args) ==
    IF format = ""
    THEN IF args = <<>> THEN "" ELSE "%!(EXTRA " \o Extra(args) \o ")"
    ELSE IF Head(format) # "%"
    THEN Head(format) \o Sprintf(Tail(format), args)
    ELSE IF Len(format) = 1
    THEN "%!(NOVERB)" \o Sprintf("", args)
    ELSE LET verb == SubSeq(format, 2, 2)
             rest == SubSeq(format, 3, Len(format))
         IN  IF verb = "%" THEN "%" \o Sprintf(rest, args)
             ELSE IF args = <<>>
             THEN "%!" \o verb \o "(MISSING)" \o Sprintf(rest, args)
             ELSE FormatVerb(verb, Head(args)) \o Sprintf(rest, Tail(args))

\* The error the first %w of the format wraps; Nil when there is none.
RECURSIVE WrappedErr(_, _)
WrappedErr(format, args) ==
    IF Len(format) < 2 \/ args = <<>> THEN Nil
    ELSE IF Head(format) # "%" THEN WrappedErr(Tail(format), args)
    ELSE LET verb == SubSeq(format, 2, 2)
             rest == SubSeq(format, 3, Len(format))
         IN  IF verb = "%" THEN WrappedErr(rest, args)
             ELSE IF verb = "w" /\ Head(args).err # Nil THEN Head(args).err
             ELSE WrappedErr(rest, Tail(args))

(***************************************************************************)
(* Stacks and slices.                                                      *)
(***************************************************************************)
NilStack == [nil |-> TRUE, pcs |-> <<>>]
StackOf(pcs) == [nil |-> FALSE, pcs |-> pcs]

NilSlice == [nil |-> TRUE, items |-> <<>>]
SliceOf(items) == [nil |-> FALSE, items |-> items]

\* A program counter stands for the frame runtime.CallersFrames resolves it to.
Frame(fn, file, line) == [Function |-> fn, File |-> file, Line |-> line]
ZeroFrame == Frame("", "", 0)

(***************************************************************************)
(* Heap nodes.                                                             *)
(***************************************************************************)
\* &Error{Description, error, stack}
ErrorNode(description, err, stack) ==
    [kind |-> "Error", Description |-> description, msg |-> "",
     error |-> err, stack |-> stack]

\* *fmt.wrapError, what fmt.Errorf returns for a format with one %w.
WrapErrorNode(msg, err) ==
    [kind |-> "wrapError", Description |-> "", msg |-> msg,
     error |-> err, stack |-> NilStack]

\* *errors.errorString, a foreign error with no cause.
ErrorStringNode(msg) ==
    [kind |-> "errorString", Description |-> "", msg |-> msg,
     error |-> Nil, stack |-> NilStack]

(***************************************************************************)
(* The standard helpers the package re-exports, and the methods of Error.  *)
(* h is the heap; e is a pointer to an Error node; err is any error.       *)
(***************************************************************************)

\* Mutant of (*Error).Unwrap: walks down to the root cause.
RECURSIVE Error_Unwrap_Root(_, _)
Error_Unwrap_Root(h, e) ==
    IF h[e].error = Nil THEN Nil
    ELSE IF h[h[e].error].error = Nil THEN h[e].error
    ELSE Error_Unwrap_Root(h, h[e].error)

\* (*Error).Unwrap
Error_Unwrap(h, e) == h[e].error

\* errors.Unwrap: the Unwrap method's result when err has one, else nil.
Unwrap(h, err) ==
    IF err = Nil THEN Nil
    ELSE IF h[err].kind = "Error" THEN Error_Unwrap(h, err)
    ELSE IF h[err].kind = "wrapError" THEN h[err].error
    ELSE Nil

\* errors.Is: err or a link of its Unwrap chain is target itself.
RECURSIVE Is(_, _, _)
Is(h, err, target) ==
    IF err = Nil \/ target = Nil THEN err = target
    ELSE IF err = target THEN TRUE
    ELSE LET next == Unwrap(h, err)
         IN  IF next = Nil THEN FALSE ELSE Is(h, next, target)

\* errors.As with a *Error target: the first link of err's Unwrap chain that
\* is an Error, Nil when As reports false.
RECURSIVE As(_, _)
As(h, err) ==
    IF err = Nil THEN Nil
    ELSE IF h[err].kind = "Error" THEN err
    ELSE As(h, Unwrap(h, err))

\* err.Error() on a non-nil err, and (*Error).Error.
RECURSIVE ErrorOf(_, _)
RECURSIVE Error_Error(_, _)
\* Mutant of (*Error).Error: prints what Format prints, the description alone.
Error_Error_DescriptionOnly(h, e) == h[e].Description

Error_Error(h, e) ==
    IF h[e].error = Nil
    THEN h[e].Description
    ELSE Sprintf("%s: %s", <<StringArg(h[e].Description),
                             StringArg(ErrorOf(h, h[e].error))>>)

ErrorOf(h, err) ==
    IF h[err].kind = "Error" THEN Error_Error(h, err) ELSE h[err].msg

\* err.Error() on an err that may be the nil interface.
CallError(h, err) == IF err = Nil THEN Panic ELSE Ok(ErrorOf(h, err))

\* (*Error).Format: what %v, %s and %w print for an Error operand.
Error_Format(h, e) == Sprintf("%s", <<StringArg(h[e].Description)>>)

\* An error as an operand of a fmt call: an Error is a fmt.Formatter, any
\* other error prints its Error().
ErrArg(h, err) ==
    IF err = Nil THEN NilArg
    ELSE IF h[err].kind = "Error" THEN Arg("*errors.Error", Error_Format(h, err), err)
    ELSE Arg("*fmt." \o h[err].kind, ErrorOf(h, err), err)

\* (*Error).Message
Error_Message(h, e) ==
    IF h[e].Description = ""
    THEN CallError(h, h[e].error)
    ELSE Ok(h[e].Description)

\* The loop left out: the immediate cause is always the one rendered.
DeepestLoop_Immediate(h, err, originalErr) == originalErr

\* for err := Unwrap(e.error); err != nil; err = Unwrap(err) { originalErr = err }
RECURSIVE DeepestLoop(_, _, _)
DeepestLoop(h, err, originalErr) ==
    IF err = Nil THEN originalErr ELSE DeepestLoop(h, Unwrap(h, err), err)

\* (*Error).GetOriginalErrorMessage
Error_GetOriginalErrorMessage(h, e) ==
    LET originalErr == DeepestLoop(h, Unwrap(h, h[e].error), Nil)
    IN  IF h[e].Description = ""
        THEN IF originalErr # Nil
             THEN CallError(h, originalErr)
             ELSE CallError(h, h[e].error)
        ELSE LET errToUse == IF originalErr # Nil THEN originalErr ELSE h[e].error
                 m == CallError(h, errToUse)
             IN  IF m.panic THEN Panic
                 ELSE Ok(Sprintf("%s: %s", <<StringArg(h[e].Description),
                                              StringArg(m.val)>>))

\* The frames loop of GetCallStack over the program counters pcs, from the
\* i-th on; frames.Next() on an exhausted list yields the zero Frame.
RECURSIVE FramesLoop(_, _, _)
FramesLoop(pcs, i, callStackFrames) ==
    LET frame == IF i <= Len(pcs) THEN pcs[i] ELSE ZeroFrame
        more == i < Len(pcs)
        line == Sprintf("%s\n\t%s:%d", <<StringArg(frame.Function),
                                         StringArg(frame.File), IntArg(frame.Line)>>)
    IN  IF frame.Function = "unknown" THEN callStackFrames
        ELSE IF ~more THEN Append(callStackFrames, line)
        ELSE FramesLoop(pcs, i + 1, Append(callStackFrames, line))

\* (*Error).GetCallStack
Error_GetCallStack(h, e) ==
    IF e = Nil THEN NilSlice
    ELSE IF h[e].stack.nil THEN NilSlice
    ELSE SliceOf(FramesLoop(h[e].stack.pcs, 1, <<>>))

(***************************************************************************)
(* The ten sentinels: the first ten nodes of the heap, built by New.       *)
(***************************************************************************)
ErrBadRequest == 1
ErrUnauthorized == 2
ErrRegistrationRequired == 3
ErrPaymentError == 4
ErrForbiddenAction == 5
ErrNotFound == 6
ErrConflict == 7
ErrPreconditionFailed == 8
ErrValidation == 9
ErrInternalServerError == 10

Sentinels ==
    {ErrBadRequest, ErrUnauthorized, ErrRegistrationRequired, ErrPaymentError,
     ErrForbiddenAction, ErrNotFound, ErrConflict, ErrPreconditionFailed,
     ErrValidation, ErrInternalServerError}

SentinelDescriptions ==
    <<"bad request", "user unauthorized", "registration required",
      "payment error", "forbidden", "entity not found", "conflict request",
      "precondition failed", "validation failed", "internal server error">>

\* Mutant of the switch: the last case is missing.
IsPredefined_NoServerError(h, err) ==
    \/ Is(h, err, ErrBadRequest)
    \/ Is(h, err, ErrUnauthorized)
    \/ Is(h, err, ErrRegistrationRequired)
    \/ Is(h, err, ErrPaymentError)
    \/ Is(h, err, ErrForbiddenAction)
    \/ Is(h, err, ErrNotFound)
    \/ Is(h, err, ErrConflict)
    \/ Is(h, err, ErrPreconditionFailed)
    \/ Is(h, err, ErrValidation)

\* The switch of GetOriginalPredefinedError.
IsPredefined(h, err) ==
    \/ Is(h, err, ErrBadRequest)
    \/ Is(h, err, ErrUnauthorized)
    \/ Is(h, err, ErrRegistrationRequired)
    \/ Is(h, err, ErrPaymentError)
    \/ Is(h, err, ErrForbiddenAction)
    \/ Is(h, err, ErrNotFound)
    \/ Is(h, err, ErrConflict)
    \/ Is(h, err, ErrPreconditionFailed)
    \/ Is(h, err, ErrValidation)
    \/ Is(h, err, ErrInternalServerError)

\* The loop of GetOriginalPredefinedError.
RECURSIVE PredefinedLoop(_, _, _)
PredefinedLoop(h, err, predefinedErr) ==
    IF err = Nil THEN predefinedErr
    ELSE IF IsPredefined(h, err) THEN PredefinedLoop(h, Unwrap(h, err), err)
    ELSE predefinedErr

\* (*Error).GetOriginalPredefinedError
Error_GetOriginalPredefinedError(h, e) ==
    PredefinedLoop(h, Unwrap(h, h[e].error), h[e].error)

(***************************************************************************)
(* Chain traversal.                                                        *)
(***************************************************************************)
\* Mutant of the loop: keeps the first framework error with a stack.
RECURSIVE FindOriginalLoop_First(_, _, _)
FindOriginalLoop_First(h, current, lastFrameworkErrWithStack) ==
    IF current = Nil THEN lastFrameworkErrWithStack
    ELSE LET frameworkErr == As(h, current)
             found == frameworkErr # Nil /\ ~Error_GetCallStack(h, frameworkErr).nil
         IN  IF found THEN frameworkErr
             ELSE FindOriginalLoop_First(h, Unwrap(h, current),
                                         lastFrameworkErrWithStack)

\* The loop of FindOriginalErrorWithStack.
RECURSIVE FindOriginalLoop(_, _, _)
FindOriginalLoop(h, current, lastFrameworkErrWithStack) ==
    IF current = Nil THEN lastFrameworkErrWithStack
    ELSE LET frameworkErr == As(h, current)
             found == frameworkErr # Nil /\ ~Error_GetCallStack(h, frameworkErr).nil
         IN  FindOriginalLoop(h, Unwrap(h, current),
                 IF found THEN frameworkErr ELSE lastFrameworkErrWithStack)

FindOriginalErrorWithStack(h, err) == FindOriginalLoop(h, err, Nil)

\* Mutant of FindFirstErrorWithStack: asks for a stack, as its name suggests.
RECURSIVE FindFirst_RequiresStack(_, _)
FindFirst_RequiresStack(h, current) ==
    IF current = Nil THEN current
    ELSE LET frameworkErr == As(h, current)
         IN  IF frameworkErr # Nil /\ ~Error_GetCallStack(h, frameworkErr).nil
             THEN frameworkErr
             ELSE FindFirst_RequiresStack(h, Unwrap(h, current))

RECURSIVE FindFirstErrorWithStack(_, _)
FindFirstErrorWithStack(h, current) ==
    IF current = Nil THEN current
    ELSE LET frameworkErr == As(h, current)
         IN  IF frameworkErr # Nil THEN frameworkErr
             ELSE FindFirstErrorWithStack(h, Unwrap(h, current))

(***************************************************************************)
(* Stack capture.                                                          *)
(***************************************************************************)
depth == 32

\* callers(): goStack holds the frames of the calling goroutine from the
\* caller of the package function outward, which is where skip = 3 starts.
callers(goStack) ==
    StackOf(SubSeq(goStack, 1, IF Len(goStack) < depth THEN Len(goStack) ELSE depth))

\* fmt.Errorf: a *wrapError when the format wraps an error, else an errorString.
ErrorfNode(format, args) ==
    LET msg == Sprintf(format, args)
        wrapped == WrappedErr(format, args)
    IN  IF wrapped = Nil THEN ErrorStringNode(msg) ELSE WrapErrorNode(msg, wrapped)

(***************************************************************************)
(* Inputs.                                                                 *)
(***************************************************************************)
Descriptions == {"", "ctx"}

\* A format with its operands, for Newf, Wrapf and WrapfWithCustomErr.
FormatCalls == {[format |-> "id %d", args |-> <<IntArg(42)>>]}

\* Formats of Errorf, which takes the error as its operand.
ErrorfFormats == {"read: %w", "read: %v"}

\* Formats of (*Error).Wrapf.
WrapfFormats == {"f", "%v"}

\* The call stack of the goroutine that calls into the package, from the
\* caller outward.  The first frame is the Go function that makes the call;
\* a frame further out may be one a cgo symbolizer names "unknown".
GoStacks ==
    {<<Frame("main.run", "run.go", 7), Frame("main.main", "main.go", 30),
       Frame("unknown", "", 0), Frame("runtime.goexit", "asm.s", 1)>>}

\* Stacks handed to AddCustomCallStack.
CustomStacks ==
    {NilStack, StackOf(<<>>), StackOf(<<Frame("worker.do", "worker.go", 5)>>)}

(***************************************************************************)
(* State.                                                                  *)
(*   allocated  the nodes of the value in hand, after the package's own    *)
(*   made       for each of them, the call that built it, that call's      *)
(*              primary error argument and its wrapping error (history,    *)
(*              read by no operation)                                      *)
(*   cur        the error value the program holds                          *)
(*   call       the last call: its name, its arguments, what it returned   *)
(* The program builds one value, wrapping what it holds, and then inspects *)
(* it; a value no longer held is garbage and leaves the heap.              *)
(***************************************************************************)
Made(by, arg) == [by |-> by, arg |-> arg, with |-> Nil]
MadeWith(by, arg, w) == [by |-> by, arg |-> arg, with |-> w]

\* The package-level values: the ten sentinels, and a foreign error with
\* no cause, such as io.EOF.
Base ==
    [i \in 1..Len(SentinelDescriptions) |->
        ErrorNode(SentinelDescriptions[i], Nil, NilStack)]
    \o <<ErrorStringNode("EOF")>>
BaseMade ==
    [i \in 1..Len(SentinelDescriptions) |-> Made("New", Nil)]
    \o <<Made("foreign", Nil)>>
ForeignErr == Len(SentinelDescriptions) + 1

heap == Base \o allocated
madeBy == BaseMade \o made

NoCall ==
    [op |-> "none", e |-> Nil, err |-> Nil, wrappingErr |-> Nil,
     description |-> "", format |-> "", args |-> <<>>,
     callStack |-> NilStack, goStack |-> <<>>,
     ret |-> Nil, str |-> Ok(""), frames |-> NilSlice]

Init ==
    /\ allocated = <<>>
    /\ made = <<>>
    /\ cur = Nil
    /\ call = NoCall

Ptrs == DOMAIN heap
ErrorPtrs == {p \in Ptrs : heap[p].kind = "Error"}

QueryOps ==
    {"Error", "Message", "GetOriginalErrorMessage", "Unwrap", "GetCallStack",
     "GetOriginalPredefinedError", "FindOriginalErrorWithStack",
     "FindFirstErrorWithStack"}

\* The program is still building its value.
Building == call.op \notin QueryOps

\* Room for n more nodes.
Room(n) == Len(allocated) + n <= MaxAlloc

\* The error argument the program passes: the value it holds, nil at first.
Errs == {cur}

\* Receivers of (*Error).Wrap and (*Error).Wrapf: a sentinel, or the value held.
Receivers == {ErrConflict} \cup ({cur} \cap ErrorPtrs)

\* The call returns without allocating.
Returns(c) == call' = c /\ UNCHANGED <<allocated, made, cur>>

\* The call allocates nodes on top of what is held and returns the last one.
Allocates(nodes, mades, c) ==
    /\ allocated' = allocated \o nodes
    /\ made' = made \o mades
    /\ cur' = Len(heap) + Len(nodes)
    /\ call' = [c EXCEPT !.ret = Len(heap) + Len(nodes)]

\* The call allocates a value with no cause; what was held is released.
Starts(node, m, c) ==
    /\ allocated' = <<node>>
    /\ made' = <<m>>
    /\ cur' = Len(Base) + 1
    /\ call' = [c EXCEPT !.ret = Len(Base) + 1]

(***************************************************************************)
(* Constructors.                                                           *)
(***************************************************************************)
\* The package-level values the program takes in hand as they are: a
\* sentinel and the foreign error.
Taken == {ErrNotFound, ForeignErr}

\* The program takes a package-level value in hand.
Take(p) ==
    /\ Building
    /\ allocated' = <<>>
    /\ made' = <<>>
    /\ cur' = p
    /\ call' = [NoCall EXCEPT !.op = "take", !.ret = p]

New(description) ==
    /\ Building
    /\ Starts(ErrorNode(description, Nil, NilStack), Made("New", Nil),
              [NoCall EXCEPT !.op = "New", !.description = description])

\* Mutant of NewWithStack: captures no stack.
NewWithStack_NoStack(description, goStack) ==
    /\ Building
    /\ Starts(ErrorNode(description, Nil, NilStack),
              Made("NewWithStack", Nil),
              [NoCall EXCEPT !.op = "NewWithStack", !.description = description,
                             !.goStack = goStack])

NewWithStack(description, goStack) ==
    /\ Building
    /\ Starts(ErrorNode(description, Nil, callers(goStack)),
              Made("NewWithStack", Nil),
              [NoCall EXCEPT !.op = "NewWithStack", !.description = description,
                             !.goStack = goStack])

Newf(formatedDescription, args) ==
    /\ Building
    /\ Starts(ErrorNode(Sprintf(formatedDescription, args), Nil, NilStack),
              Made("Newf", Nil),
              [NoCall EXCEPT !.op = "Newf", !.format = formatedDescription,
                             !.args = args])

\* Errorf (fmt.Errorf) with err as its one operand: a foreign link.
Errorf(format, err) ==
    /\ Building /\ Room(1)
    /\ Allocates(<<ErrorfNode(format, <<ErrArg(heap, err)>>)>>,
                 <<Made("Errorf", err)>>,
                 [NoCall EXCEPT !.op = "Errorf", !.format = format, !.err = err])

(***************************************************************************)
(* Wrappers.                                                               *)
(***************************************************************************)
\* Mutant of Wrap: no nil check.
Wrap_NoNilCheck(err, description, goStack) ==
    /\ Building /\ Room(1)
    /\ Allocates(<<ErrorNode(description, err, callers(goStack))>>,
                 <<Made("Wrap", err)>>,
                 [NoCall EXCEPT !.op = "Wrap", !.err = err,
                                !.description = description, !.goStack = goStack])

Wrap(err, description, goStack) ==
    LET c == [NoCall EXCEPT !.op = "Wrap", !.err = err,
                            !.description = description, !.goStack = goStack]
    IN  /\ Building /\ Room(1)
        /\ IF err = Nil
           THEN Returns(c)
           ELSE Allocates(<<ErrorNode(description, err, callers(goStack))>>,
                          <<Made("Wrap", err)>>, c)

Wrapf(err, format, args, goStack) ==
    LET c == [NoCall EXCEPT !.op = "Wrapf", !.err = err, !.format = format,
                            !.args = args, !.goStack = goStack]
    IN  /\ Building /\ Room(1)
        /\ IF err = Nil
           THEN Returns(c)
           ELSE Allocates(<<ErrorNode(Sprintf(format, args), err, callers(goStack))>>,
                          <<Made("Wrapf", err)>>, c)

WrapfWithCustomErr(originalErr, wrappingErr, format, args, goStack) ==
    LET c == [NoCall EXCEPT !.op = "WrapfWithCustomErr", !.err = originalErr,
                            !.wrappingErr = wrappingErr, !.format = format,
                            !.args = args, !.goStack = goStack]
        inner == ErrorfNode("%w: %v", <<ErrArg(heap, wrappingErr),
                                        ErrArg(heap, originalErr)>>)
    IN  /\ Building /\ Room(2)
        /\ IF originalErr = Nil
           THEN Returns(c)
           ELSE Allocates(<<inner,
                            ErrorNode(Sprintf(format, args), Len(heap) + 1,
                                      callers(goStack))>>,
                          <<Made("inner", originalErr),
                            MadeWith("WrapfWithCustomErr", originalErr, wrappingErr)>>, c)

WrapWithCustomErr(originalErr, wrappingErr, goStack) ==
    LET c == [NoCall EXCEPT !.op = "WrapWithCustomErr", !.err = originalErr,
                            !.wrappingErr = wrappingErr, !.goStack = goStack]
        inner == ErrorfNode("%w: %v", <<ErrArg(heap, wrappingErr),
                                        ErrArg(heap, originalErr)>>)
    IN  /\ Building /\ Room(2)
        /\ IF originalErr = Nil
           THEN Returns(c)
           ELSE Allocates(<<inner,
                            ErrorNode("", Len(heap) + 1, callers(goStack))>>,
                          <<Made("inner", originalErr),
                            MadeWith("WrapWithCustomErr", originalErr, wrappingErr)>>, c)

AddCustomCallStack(err, callStack) ==
    LET c == [NoCall EXCEPT !.op = "AddCustomCallStack", !.err = err,
                            !.callStack = callStack]
    IN  /\ Building /\ Room(1)
        /\ IF err = Nil
           THEN Returns(c)
           ELSE Allocates(<<ErrorNode(ErrorOf(heap, err), err, callStack)>>,
                          <<Made("AddCustomCallStack", err)>>, c)

\* (*Error).Wrap
Error_Wrap(e, err, goStack) ==
    LET c == [NoCall EXCEPT !.op = "Error.Wrap", !.e = e, !.err = err,
                            !.goStack = goStack]
    IN  /\ Building /\ Room(1)
        /\ IF err = Nil \/ heap[e].Description = ""
           THEN Returns(c)
           ELSE Allocates(<<ErrorNode(heap[e].Description, err, callers(goStack))>>,
                          <<Made("Error.Wrap", err)>>, c)

\* (*Error).Wrapf
Error_Wrapf(e, format, err, goStack) ==
    LET c == [NoCall EXCEPT !.op = "Error.Wrapf", !.e = e, !.err = err,
                            !.format = format, !.goStack = goStack]
        er == ErrorNode(heap[e].Description, err, callers(goStack))
        h1 == Append(heap, er)
    IN  /\ Building /\ Room(2)
        /\ IF err = Nil \/ heap[e].Description = ""
           THEN Returns(c)
           ELSE Allocates(<<er, ErrorfNode(format \o " :%w", <<ErrArg(h1, Len(h1))>>)>>,
                          <<Made("inner", err), Made("Error.Wrapf", err)>>, c)

(***************************************************************************)
(* Inspection: each action calls one method or traversal on the value held *)
(* and records what it returns.  A method is called on the *Error that     *)
(* As finds in the value.                                                  *)
(***************************************************************************)
Held == {As(heap, cur)} \ {Nil}

Call_Error(e) ==
    /\ Building
    /\ Returns([NoCall EXCEPT !.op = "Error", !.e = e,
                              !.str = Ok(Error_Error(heap, e))])

Call_Message(e) ==
    /\ Building
    /\ Returns([NoCall EXCEPT !.op = "Message", !.e = e,
                              !.str = Error_Message(heap, e)])

Call_GetOriginalErrorMessage(e) ==
    /\ Building
    /\ Returns([NoCall EXCEPT !.op = "GetOriginalErrorMessage", !.e = e,
                              !.str = Error_GetOriginalErrorMessage(heap, e)])

Call_Unwrap(e) ==
    /\ Building
    /\ Returns([NoCall EXCEPT !.op = "Unwrap", !.e = e,
                              !.ret = Error_Unwrap(heap, e)])

Call_GetCallStack(e) ==
    /\ Building
    /\ Returns([NoCall EXCEPT !.op = "GetCallStack", !.e = e,
                              !.frames = Error_GetCallStack(heap, e)])

Call_GetOriginalPredefinedError(e) ==
    /\ Building
    /\ Returns([NoCall EXCEPT !.op = "GetOriginalPredefinedError", !.e = e,
                              !.ret = Error_GetOriginalPredefinedError(heap, e)])

Call_FindOriginalErrorWithStack(err) ==
    /\ Building
    /\ Returns([NoCall EXCEPT !.op = "FindOriginalErrorWithStack", !.err = err,
                              !.ret = FindOriginalErrorWithStack(heap, err)])

Call_FindFirstErrorWithStack(err) ==
    /\ Building
    /\ Returns([NoCall EXCEPT !.op = "FindFirstErrorWithStack", !.err = err,
                              !.ret = FindFirstErrorWithStack(heap, err)])

(***************************************************************************)
(* Specification.                                                          *)
(***************************************************************************)
Next ==
    \/ \E p \in Taken : Take(p)
    \/ \E d \in Descriptions : New(d)
    \/ \E d \in Descriptions, g \in GoStacks : NewWithStack(d, g)
    \/ \E f \in FormatCalls : Newf(f.format, f.args)
    \/ \E f \in ErrorfFormats, err \in Errs : Errorf(f, err)
    \/ \E err \in Errs, d \in Descriptions, g \in GoStacks : Wrap(err, d, g)
    \/ \E err \in Errs, f \in FormatCalls, g \in GoStacks :
          Wrapf(err, f.format, f.args, g)
    \/ \E err \in Errs, w \in Sentinels \cup {Nil}, f \in FormatCalls, g \in GoStacks :
          WrapfWithCustomErr(err, w, f.format, f.args, g)
    \/ \E err \in Errs, w \in Sentinels \cup {Nil}, g \in GoStacks :
          WrapWithCustomErr(err, w, g)
    \/ \E err \in Errs, st \in CustomStacks : AddCustomCallStack(err, st)
    \/ \E e \in Receivers, err \in Errs, g \in GoStacks : Error_Wrap(e, err, g)
    \/ \E e \in Receivers, f \in WrapfFormats, err \in Errs, g \in GoStacks :
          Error_Wrapf(e, f, err, g)
    \/ \E e \in Held : Call_Error(e)
    \/ \E e \in Held : Call_Message(e)
    \/ \E e \in Held : Call_GetOriginalErrorMessage(e)
    \/ \E e \in Held : Call_Unwrap(e)
    \/ \E e \in Held \cup {Nil} : Call_GetCallStack(e)
    \/ \E e \in Held : Call_GetOriginalPredefinedError(e)
    \/ \E err \in Errs : Call_FindOriginalErrorWithStack(err)
    \/ \E err \in Errs : Call_FindFirstErrorWithStack(err)

Spec == Init /\ [][Next]_vars

(***************************************************************************)
(* What the claims speak of.                                               *)
(***************************************************************************)
\* The links of err's Unwrap chain, outermost first.
RECURSIVE Chain(_, _)
Chain(h, err) == IF err = Nil THEN <<>> ELSE <<err>> \o Chain(h, Unwrap(h, err))

\* Unwrap applied n times.
RECURSIVE UnwrapN(_, _, _)
UnwrapN(h, err, n) == IF n = 0 THEN err ELSE UnwrapN(h, Unwrap(h, err), n - 1)

\* The message the data model gives a value: the description, then ": " and
\* the cause's message when there is a cause.
RECURSIVE Rendering(_)
Rendering(p) ==
    IF heap[p].kind # "Error" THEN heap[p].msg
    ELSE IF heap[p].error = Nil THEN heap[p].Description
    ELSE heap[p].Description \o ": " \o Rendering(heap[p].error)

Undefined == 0 - 1

\* The error that n successive calls of Wrap, Wrapf or AddCustomCallStack
\* turned into p, by the history of the calls; Undefined when p was not
\* built that way.
RECURSIVE Origin(_, _)
Origin(p, n) ==
    IF n = 0 THEN p
    ELSE IF madeBy[p].by \in {"Wrap", "Wrapf", "AddCustomCallStack"}
    THEN Origin(madeBy[p].arg, n - 1)
    ELSE Undefined

\* The sentinel p was classified with: p is the result of WrapWithCustomErr
\* or WrapfWithCustomErr with that sentinel, or of Wrap or Wrapf on such a
\* value; Nil otherwise.
RECURSIVE Classified(_)
Classified(p) ==
    IF madeBy[p].by \in {"WrapWithCustomErr", "WrapfWithCustomErr"}
    THEN madeBy[p].with
    ELSE IF madeBy[p].by \in {"Wrap", "Wrapf"} THEN Classified(madeBy[p].arg)
    ELSE Nil

WrapFamily ==
    {"Wrap", "Wrapf", "WrapWithCustomErr", "WrapfWithCustomErr",
     "AddCustomCallStack", "Error.Wrap", "Error.Wrapf"}

\* C1: Error() of an Error value is its description when it has no cause and
\* description + ": " + cause.Error() when it has one; New(d).Error() is d
\* and Wrap(err, d).Error() is d + ": " + err.Error() for a non-nil err.
C1_ErrorRendering ==
    /\ call.op = "Error" => call.str = Ok(Rendering(call.e))
    /\ call.op = "New" => Error_Error(heap, call.ret) = call.description
    /\ (call.op = "Wrap" /\ call.err # Nil) =>
          Error_Error(heap, call.ret)
              = call.description \o ": " \o Rendering(call.err)

C1_Witness ==
    /\ call.op = "Error"
    /\ madeBy[call.e].by = "Wrap"
    /\ madeBy[heap[call.e].error].by = "WrapfWithCustomErr"
    /\ call.str = Ok("ctx: id 42: entity not found: EOF")

\* C2: a wrap-family call whose primary error argument is nil returns nil
\* and constructs nothing, whatever its other arguments.
C2_NilInNilOut ==
    (call.op \in WrapFamily /\ call.err = Nil) =>
        (call.ret = Nil /\ cur = Nil /\ allocated = <<>>)

C2_Witness ==
    /\ call.op = "WrapfWithCustomErr"
    /\ call.err = Nil
    /\ call.wrappingErr = ErrNotFound
    /\ call.ret = Nil

\* C3: after n >= 1 successive wraps of e by Wrap, Wrapf or
\* AddCustomCallStack, n calls of Unwrap give e itself.
C3_UnwrapRoundTrip ==
    /\ \A p \in Ptrs : \A n \in 1..Len(allocated) :
          Origin(p, n) # Undefined => UnwrapN(heap, p, n) = Origin(p, n)
    /\ (call.op = "Unwrap" /\ Origin(call.e, 1) # Undefined) =>
          call.ret = madeBy[call.e].arg

C3_Witness ==
    /\ Len(allocated) = 3
    /\ {madeBy[p].by : p \in Ptrs \ DOMAIN Base}
          = {"Wrap", "Wrapf", "AddCustomCallStack"}
    /\ Origin(cur, 3) = ForeignErr
    /\ UnwrapN(heap, cur, 3) = ForeignErr

\* C4: a value classified with a sentinel S (by WrapWithCustomErr or
\* WrapfWithCustomErr on a non-nil error, then any number of Wrap or Wrapf)
\* satisfies Is(r, S), and its GetOriginalPredefinedError() is S itself.
C4_SentinelClassification ==
    /\ \A p \in Ptrs :
          Classified(p) \in Sentinels =>
              /\ Is(heap, p, Classified(p))
              /\ Error_GetOriginalPredefinedError(heap, p) = Classified(p)
    /\ (call.op = "GetOriginalPredefinedError" /\ Classified(call.e) \in Sentinels) =>
          call.ret = Classified(call.e)

C4_Witness ==
    /\ call.op = "GetOriginalPredefinedError"
    /\ madeBy[call.e].by = "Wrapf"
    /\ madeBy[madeBy[call.e].arg].by = "WrapWithCustomErr"
    /\ Classified(call.e) = ErrInternalServerError
    /\ call.ret = ErrInternalServerError

\* The positions of a chain that hold an Error, and those that hold an
\* Error with a stack.
ErrorLinks(chain) == {i \in 1..Len(chain) : heap[chain[i]].kind = "Error"}
StackLinks(chain) == {i \in ErrorLinks(chain) : ~heap[chain[i]].stack.nil}

Max(S) == CHOOSE x \in S : \A y \in S : y <= x
Min(S) == CHOOSE x \in S : \A y \in S : x <= y

\* C5: FindOriginalErrorWithStack(err) is the innermost link of err's
\* Unwrap chain that is an Error with a stack, and nil when err is nil or
\* the chain has no such link.
C5_FindOriginalIsInnermost ==
    call.op = "FindOriginalErrorWithStack" =>
        LET chain == Chain(heap, call.err)
        IN  call.ret = IF StackLinks(chain) = {} THEN Nil
                       ELSE chain[Max(StackLinks(chain))]

\* An Error with a stack on top, a foreign link below it, and a deeper Error
\* with a stack: the deeper one is returned.
C5_Witness ==
    /\ call.op = "FindOriginalErrorWithStack"
    /\ call.err # Nil
    /\ LET chain == Chain(heap, call.err)
       IN  /\ Len(chain) >= 3
           /\ 1 \in StackLinks(chain)
           /\ \E i \in 2..Len(chain) : heap[chain[i]].kind # "Error"
           /\ Max(StackLinks(chain)) > 2
           /\ call.ret = chain[Max(StackLinks(chain))]

\* C6: FindFirstErrorWithStack(err) is the outermost link of err's Unwrap
\* chain that is an Error, with or without a stack, and nil when err is nil
\* or the chain has no Error.
C6_FindFirstIsOutermostError ==
    call.op = "FindFirstErrorWithStack" =>
        LET chain == Chain(heap, call.err)
        IN  call.ret = IF ErrorLinks(chain) = {} THEN Nil
                       ELSE chain[Min(ErrorLinks(chain))]

\* A foreign link over a stack-less Error over an Error with a stack: the
\* stack-less one is returned.
C6_Witness ==
    /\ call.op = "FindFirstErrorWithStack"
    /\ call.ret \notin {Nil, call.err}
    /\ heap[call.ret].stack.nil
    /\ StackLinks(Chain(heap, call.err)) # {}

\* C7: GetCallStack() is nil on a value built by New or Newf (the sentinels
\* too) and a non-empty sequence on one built by NewWithStack, Wrap, Wrapf,
\* WrapWithCustomErr or WrapfWithCustomErr; AddCustomCallStack stores the
\* stack it is given.
C7_StackFollowsConstructor ==
    /\ (call.op = "GetCallStack" /\ call.e # Nil) =>
          /\ madeBy[call.e].by \in {"New", "Newf"} => call.frames = NilSlice
          /\ madeBy[call.e].by \in {"NewWithStack", "Wrap", "Wrapf",
                                     "WrapWithCustomErr", "WrapfWithCustomErr"} =>
                (~call.frames.nil /\ Len(call.frames.items) >= 1)
    /\ (call.op = "AddCustomCallStack" /\ call.err # Nil) =>
          heap[call.ret].stack = call.callStack

C7_Witness ==
    /\ call.op = "GetCallStack"
    /\ call.e # Nil
    /\ madeBy[call.e].by = "WrapWithCustomErr"
    /\ call.frames = SliceOf(<<"main.run\n\trun.go:7", "main.main\n\tmain.go:30">>)

\* C8 as stated: the error AddCustomCallStack returns for a non-nil err has
\* err's message.
C8_AddCustomCallStackKeepsMessage ==
    (call.op = "AddCustomCallStack" /\ call.err # Nil) =>
        ErrorOf(heap, call.ret) = ErrorOf(heap, call.err)

\* C9 as stated: Message() is the description when it is not empty, else
\* the cause's Error(), and the empty string when there is no cause either.
C9_MessageIsTotal ==
    call.op = "Message" =>
        call.str = IF heap[call.e].Description # "" THEN Ok(heap[call.e].Description)
                   ELSE IF heap[call.e].error # Nil THEN Ok(Rendering(heap[call.e].error))
                   ELSE Ok("")

\* C10 as stated: Error(), Unwrap(), GetOriginalErrorMessage(), GetCallStack(),
\* GetOriginalPredefinedError(), FindOriginalErrorWithStack and
\* FindFirstErrorWithStack never panic on a value the package built.
C10_NoPanic ==
    call.op \in QueryOps \ {"Message"} => ~call.str.panic

\* The last link of the Unwrap chain that starts at a non-nil err.
Deepest(h, err) == LET ch == Chain(h, err) IN ch[Len(ch)]

\* C11: GetOriginalErrorMessage() on an Error with a non-nil cause c renders
\* the deepest error r of the Unwrap chain starting at c (c itself when c has
\* no further cause): r.Error() when the description is empty, and the
\* description, ": " and r.Error() when it is set.
C11_DeepestCauseMessage ==
    (call.op = "GetOriginalErrorMessage" /\ heap[call.e].error # Nil) =>
        LET r == Deepest(heap, heap[call.e].error)
            m == CallError(heap, r)
        IN  /\ ~m.panic
            /\ call.str = Ok(IF heap[call.e].Description = ""
                             THEN m.val
                             ELSE heap[call.e].Description \o ": " \o m.val)

\* A described Error over a described intermediate link over a root cause:
\* the deepest cause is rendered and the intermediate description is not.
C11_Witness ==
    /\ call.op = "GetOriginalErrorMessage"
    /\ heap[call.e].Description = "ctx"
    /\ heap[call.e].error # Nil
    /\ Len(Chain(heap, heap[call.e].error)) >= 2
    /\ heap[heap[call.e].error].kind = "Error"
    /\ heap[heap[call.e].error].Description = "id 42"
    /\ call.str = Ok("ctx: EOF")
    /\ call.str # CallError(heap, call.e)

\* C12 as stated: for a non-nil err and a sentinel, WrapWithCustomErr and
\* WrapfWithCustomErr return an Error whose immediate cause is a composite,
\* non-Error link in which the sentinel wraps err as its own cause: the Unwrap
\* chain from the result passes the composite, reaches the sentinel and then
\* err, so that Is(result, err) and Is(result, sentinel) both hold.
C12_SentinelWrapsOriginal ==
    (/\ call.op \in {"WrapWithCustomErr", "WrapfWithCustomErr"}
     /\ call.err # Nil
     /\ call.wrappingErr \in Sentinels) =>
        LET composite == Error_Unwrap(heap, call.ret)
        IN  /\ heap[call.ret].kind = "Error"
            /\ composite # Nil
            /\ heap[composite].kind # "Error"
            /\ Unwrap(heap, composite) = call.wrappingErr
            /\ Unwrap(heap, call.wrappingErr) = call.err
            /\ Is(heap, call.ret, call.wrappingErr)
            /\ Is(heap, call.ret, call.err)

====
